---- MODULE Spec2Model ----
(***************************************************************************)
(* Model of callback_plugins/elk_logger.py: the Ansible callback plugin    *)
(* CallbackModule, which turns every lifecycle event of a playbook run     *)
(* into one JSON document and POSTs it to Elasticsearch.                   *)
(*                                                                         *)
(* Three specifications share the variables and the actions:               *)
(*   Spec       the plugin driven the way Ansible drives a callback:       *)
(*              set_options after construction, v2_playbook_on_start       *)
(*              before the events of a run, a disabled plugin never called *)
(*   SpecAPI    the methods of the class called in any order on any        *)
(*              instance, the disabled and the unconfigured one included   *)
(*   SpecClean  _clean_result applied to raw results of bounded sets       *)
(***************************************************************************)
EXTENDS Integers, Sequences, FiniteSets, TLC

(***************************************************************************)
(* Python values.  A value is a record whose only field names its type,    *)
(* so that isinstance() is a test on the domain and values of different    *)
(* types are comparable (and different).  A str is its sequence of         *)
(* characters.                                                             *)
(***************************************************************************)
PyStr(s) == [str |-> s]
PyList(l) == [list |-> l]
PyBool(b) == [bool |-> b]
PyInt(n) == [int |-> n]
PyNone == [none |-> TRUE]

IsStr(value) == DOMAIN value = {"str"}
IsList(value) == DOMAIN value = {"list"}

\* Program constants of _clean_result.
MaxStr == 5000
MaxList == 50
Marker == <<".", ".", ".", " ", "(", "t", "r", "u", "n", "c", "a", "t", "e", "d", ")">>
\* Faulty variant of safe_keys: the module arguments are let through too.
safe_keys_and_invocation ==
    <<"stdout", "stderr", "msg", "changed", "rc", "stdout_lines", "invocation">>

safe_keys == <<"stdout", "stderr", "msg", "changed", "rc", "stdout_lines">>

SeqRange(s) == {s[i] : i \in 1..Len(s)}

\* value[:n]
Slice(s, n) == SubSeq(s, 1, IF Len(s) < n THEN Len(s) ELSE n)

\* Faulty variant of CleanValue: the cap is applied from MaxStr on, not past it.
CleanValueOffByOne(value) ==
    IF IsStr(value) /\ Len(value.str) >= MaxStr
    THEN PyStr(Slice(value.str, MaxStr) \o Marker)
    ELSE IF IsList(value) /\ Len(value.list) > MaxList
    THEN PyList(Slice(value.list, MaxList) \o <<PyStr(Marker)>>)
    ELSE value

\* The body of the loop of _clean_result: what is stored for one present key.
CleanValue(value) ==
    IF IsStr(value) /\ Len(value.str) > MaxStr
    THEN PyStr(Slice(value.str, MaxStr) \o Marker)
    ELSE IF IsList(value) /\ Len(value.list) > MaxList
    THEN PyList(Slice(value.list, MaxList) \o <<PyStr(Marker)>>)
    ELSE value

\* _clean_result(result): a dict is a function from its keys; the keys of the
\* output are the keys of safe_keys found in result.
_clean_result(result) ==
    [key \in {k \in SeqRange(safe_keys) : k \in DOMAIN result} |->
        CleanValue(result[key])]

(***************************************************************************)
(* State: the module global HAS_REQUESTS, the attributes of the            *)
(* CallbackModule instance, the clock datetime.utcnow() reads, and what    *)
(* the last call of a method did.                                          *)
(***************************************************************************)
VARIABLES
    HAS_REQUESTS,       \* whether `import requests` succeeded
    disabled,           \* self.disabled (CallbackBase sets it to False)
    playbook_name,      \* self.playbook_name
    playbook_id,        \* self.playbook_id
    start_time,         \* self.start_time
    hostname,           \* self.hostname
    es_host,            \* self.es_host
    es_index,           \* self.es_index
    log_task_results,   \* self.log_task_results
    clock,              \* the time datetime.utcnow() returns, in ticks
    call,               \* the last method call: its name and arguments
    log_entry,          \* the document that call built, or NoDoc
    posted,             \* the requests.post calls that call made, in order
    shown,              \* the messages that call gave to self._display, in order
    exc,                \* the exception that call raised to its caller, or "none"
    n_calls,            \* calls so far that built or were given a document
    n_posts,            \* requests.post calls made so far
    n_failed,           \* requests.post calls so far that were not answered 200/201
    run,                \* the run context v2_playbook_on_start last established
    raw,                \* the raw result last handed to _clean_result alone
    sanitized           \* what _clean_result returned for it

attrs == <<HAS_REQUESTS, disabled, playbook_name, playbook_id, start_time, hostname>>
options == <<es_host, es_index, log_task_results>>
last == <<call, log_entry, posted, shown, exc>>
counts == <<n_calls, n_posts, n_failed>>
vars == <<attrs, options, clock, last, counts, run, raw, sanitized>>

\* An attribute the instance does not have: reading it raises AttributeError.
Unset == [unset |-> TRUE]
\* A str the program only passes on (a file name, a host, a URL).
PyName(n) == [name |-> n]
NoDoc == [nodoc |-> TRUE]
NoCall == [name |-> "__init__"]
NoRun == [norun |-> TRUE]

(***************************************************************************)
(* Time.  The clock counts ticks of 1/TicksPerSecond s.  isoformat() keeps *)
(* the sub-second part, strftime('%Y%m%d%H%M%S') drops it.                 *)
(***************************************************************************)
TicksPerSecond == 2
MaxClock == 2

utcnow == [datetime |-> clock]
isoformat(dt) == [iso |-> dt.datetime]
\* isoformat() + "Z"
IsoZ(dt) == [str |-> <<isoformat(dt), "Z">>]
strftime(dt) == [YmdHMS |-> dt.datetime \div TicksPerSecond]
\* (end_time - start_time).total_seconds()
total_seconds(end, start) == [ticks |-> end.datetime - start.datetime, per |-> TicksPerSecond]

\* Faulty variant of PlaybookId: the host identity is left out.
PlaybookIdNoHost(host, start) == [fstr |-> <<"-", strftime(start)>>]

\* f"{self.hostname}-{self.start_time.strftime('%Y%m%d%H%M%S')}"
PlaybookId(host, start) == [fstr |-> <<host, "-", strftime(start)>>]

(***************************************************************************)
(* _send_to_elasticsearch.  The answer the POST meets is an input: a       *)
(* response with a status code, or a requests.exceptions.RequestException  *)
(* (timeout, connection refused, ...) with its message.                    *)
(***************************************************************************)
StatusCodes == {200, 201, 500}
TransportErrors == {"ConnectionError"}
Outcomes == {[status |-> c] : c \in StatusCodes} \cup {[error |-> e] : e \in TransportErrors}

IsResponse(o) == DOMAIN o = {"status"}

\* Faulty variant of OkCodes: only 200 counts as delivered.
OkCodesOnly200 == {200}

\* if response.status_code not in [200, 201]
OkCodes == {200, 201}

\* json.dumps(log_entry): the JSON text, as the tree of its values; None is
\* written null, a str in quotes, every other value as itself.
RECURSIVE json_value(_)
json_value(v) ==
    LET type == DOMAIN v IN
    IF "none" \in type THEN [null |-> TRUE]
    ELSE IF "list" \in type
    THEN [array |-> [i \in 1..Len(v.list) |-> json_value(v.list[i])]]
    ELSE IF "dict" \in type
    THEN [object |-> [k \in DOMAIN v.dict |-> json_value(v.dict[k])]]
    ELSE v

json_dumps(entry) == [k \in DOMAIN entry |-> json_value(entry[k])]

\* The arguments of requests.post.
Request(entry) ==
    [url |-> <<es_host, "/", es_index, "/_doc">>,
     data |-> json_dumps(entry),
     headers |-> [ContentType |-> "application/json"],
     timeout |-> 5]

\* Faulty variant of Attempts: a delivery that failed is tried once more.
AttemptsRetry(entry, o) ==
    IF IsResponse(o) /\ o.status \in OkCodes
    THEN <<Request(entry)>>
    ELSE <<Request(entry), Request(entry)>>

\* The requests.post calls of one _send_to_elasticsearch that reaches the try.
Attempts(entry, o) == <<Request(entry)>>

\* Faulty variant of Caught: no except clause.
CaughtNothing(o) == FALSE

\* except requests.exceptions.RequestException: every transport failure of
\* requests.post is one.
Caught(o) == ~IsResponse(o)

\* Faulty variant of SkipSend: the disabled flag is not looked at.
SkipSendNever == FALSE

\* if self.disabled: return
SkipSend == disabled

WarnStatus(code) ==
    [level |-> "warning", msg |-> <<"[Elasticsearch] Failed to send log: HTTP ", code>>]
WarnError(e) == [level |-> "warning", msg |-> <<"[Elasticsearch] Error: ", e>>]

\* What one call of _send_to_elasticsearch(log_entry) does when the POST meets
\* o: the requests made, the messages shown, the exception that leaves it.
Send(entry, o) ==
    IF SkipSend
    THEN [posted |-> <<>>, shown |-> <<>>, exc |-> "none"]
    ELSE IF es_host = Unset \/ es_index = Unset
    THEN [posted |-> <<>>, shown |-> <<>>, exc |-> "AttributeError"]
    ELSE IF IsResponse(o)
    THEN [posted |-> Attempts(entry, o),
          shown |-> IF o.status \notin OkCodes THEN <<WarnStatus(o.status)>> ELSE <<>>,
          exc |-> "none"]
    ELSE IF Caught(o)
    THEN [posted |-> Attempts(entry, o), shown |-> <<WarnError(o.error)>>, exc |-> "none"]
    ELSE [posted |-> Attempts(entry, o), shown |-> <<>>, exc |-> o.error]

(***************************************************************************)
(* The lifecycle entry points.  Each builds log_entry, hands it to         *)
(* _send_to_elasticsearch and then tells the display.  An attribute that   *)
(* __init__ or set_options never assigned raises AttributeError where the  *)
(* code first reads it.                                                    *)
(***************************************************************************)
MaxEvents == 2

Lit(text) == PyName(text)

\* Faulty variant of DictGet: the default is never used.
DictGetNoDefault(d, key, default) == IF key \in DOMAIN d THEN d[key] ELSE PyNone

\* dict.get(key, default)
DictGet(d, key, default) == IF key \in DOMAIN d THEN d[key] ELSE default

UnknownError ==
    PyStr(<<"U", "n", "k", "n", "o", "w", "n", " ", "e", "r", "r", "o", "r">>)
HostUnreachable ==
    PyStr(<<"H", "o", "s", "t", " ", "u", "n", "r", "e", "a", "c", "h", "a", "b", "l", "e">>)

\* The fields every log_entry starts from.
Stamp(event_type, now, id, name, host) ==
    ("@timestamp" :> IsoZ(now)) @@
    [event_type |-> Lit(event_type), playbook_id |-> id, playbook |-> name,
     hostname |-> host]

\* Reading self.playbook_id, self.playbook_name or self.hostname fails.
ContextMissing == Unset \in {playbook_id, playbook_name, hostname}

Delivered(o) == IsResponse(o) /\ o.status \in {200, 201}

\* The entry point built entry, sent it and, unless the send raised, showed after.
Returns(c, entry, o, after) ==
    \E r \in {Send(entry, o)} :
    /\ call' = c
    /\ log_entry' = entry
    /\ posted' = r.posted
    /\ shown' = IF r.exc = "none" THEN r.shown \o after ELSE r.shown
    /\ exc' = r.exc
    /\ n_calls' = n_calls + 1
    /\ n_posts' = n_posts + Len(r.posted)
    /\ n_failed' = n_failed + (IF r.posted # <<>> /\ ~Delivered(o) THEN 1 ELSE 0)

\* The entry point raised e before it reached _send_to_elasticsearch.
Raises(c, entry, e) ==
    /\ call' = c
    /\ log_entry' = entry
    /\ posted' = <<>>
    /\ shown' = <<>>
    /\ exc' = e
    /\ n_calls' = n_calls + 1
    /\ UNCHANGED <<n_posts, n_failed>>

v2_playbook_on_start(playbook, o) ==
    LET c == [name |-> "v2_playbook_on_start", playbook |-> playbook, outcome |-> o]
        now == utcnow
    IN  /\ n_calls < MaxEvents
        /\ playbook_name' = PyName(playbook)
        /\ start_time' = now
        /\ IF hostname = Unset
           THEN /\ UNCHANGED <<playbook_id, run>>
                /\ Raises(c, NoDoc, "AttributeError")
           ELSE /\ playbook_id' = PlaybookId(hostname, now)
                /\ run' = [hostname |-> hostname, playbook |-> playbook, start |-> clock]
                /\ Returns(c,
                       Stamp("playbook_start", now, playbook_id', playbook_name', hostname)
                           @@ [status |-> Lit("started")],
                       o,
                       <<[level |-> "display",
                          msg |-> <<"[Elasticsearch] Playbook started: ", playbook_name'>>]>>)
        /\ UNCHANGED <<HAS_REQUESTS, disabled, hostname, options, clock, raw, sanitized>>

v2_playbook_on_play_start(play, o) ==
    LET c == [name |-> "v2_playbook_on_play_start", play |-> play, outcome |-> o] IN
    /\ n_calls < MaxEvents
    /\ IF ContextMissing
       THEN Raises(c, NoDoc, "AttributeError")
       ELSE Returns(c,
                Stamp("play_start", utcnow, playbook_id, playbook_name, hostname)
                    @@ [play |-> PyName(play)],
                o, <<>>)
    /\ UNCHANGED <<attrs, options, clock, run, raw, sanitized>>

v2_playbook_on_task_start(task, o) ==
    LET c == [name |-> "v2_playbook_on_task_start", task |-> task, outcome |-> o] IN
    /\ n_calls < MaxEvents
    /\ IF ContextMissing
       THEN Raises(c, NoDoc, "AttributeError")
       ELSE Returns(c,
                Stamp("task_start", utcnow, playbook_id, playbook_name, hostname)
                    @@ [task |-> PyName(task)],
                o, <<>>)
    /\ UNCHANGED <<attrs, options, clock, run, raw, sanitized>>

\* if self.log_task_results: log_entry['result'] = self._clean_result(result._result)
WithResult(entry, result) ==
    IF log_task_results.bool
    THEN entry @@ [result |-> [dict |-> _clean_result(result)]]
    ELSE entry

v2_runner_on_ok(host, task, result, o) ==
    LET c == [name |-> "v2_runner_on_ok", host |-> host, task |-> task,
              result |-> result, outcome |-> o]
        entry == Stamp("task_ok", utcnow, playbook_id, playbook_name, hostname)
                    @@ [host |-> PyName(host), task |-> PyName(task),
                        status |-> Lit("success"),
                        changed |-> DictGet(result, "changed", PyBool(FALSE))]
    IN  /\ n_calls < MaxEvents
        /\ IF ContextMissing
           THEN Raises(c, NoDoc, "AttributeError")
           ELSE IF log_task_results = Unset
           THEN Raises(c, entry, "AttributeError")
           ELSE Returns(c, WithResult(entry, result), o, <<>>)
        /\ UNCHANGED <<attrs, options, clock, run, raw, sanitized>>

v2_runner_on_failed(host, task, result, ignore_errors, o) ==
    LET c == [name |-> "v2_runner_on_failed", host |-> host, task |-> task,
              result |-> result, ignore_errors |-> ignore_errors, outcome |-> o]
        entry == Stamp("task_failed", utcnow, playbook_id, playbook_name, hostname)
                    @@ [host |-> PyName(host), task |-> PyName(task),
                        status |-> Lit("failed"),
                        ignore_errors |-> PyBool(ignore_errors),
                        error_message |-> DictGet(result, "msg", UnknownError)]
    IN  /\ n_calls < MaxEvents
        /\ IF ContextMissing
           THEN Raises(c, NoDoc, "AttributeError")
           ELSE IF log_task_results = Unset
           THEN Raises(c, entry, "AttributeError")
           ELSE Returns(c, WithResult(entry, result), o,
                    <<[level |-> "warning",
                       msg |-> <<"[Elasticsearch] Task failed: ", PyName(task)>>]>>)
        /\ UNCHANGED <<attrs, options, clock, run, raw, sanitized>>

v2_runner_on_skipped(host, task, o) ==
    LET c == [name |-> "v2_runner_on_skipped", host |-> host, task |-> task,
              outcome |-> o]
    IN  /\ n_calls < MaxEvents
        /\ IF ContextMissing
           THEN Raises(c, NoDoc, "AttributeError")
           ELSE Returns(c,
                    Stamp("task_skipped", utcnow, playbook_id, playbook_name, hostname)
                        @@ [host |-> PyName(host), task |-> PyName(task),
                            status |-> Lit("skipped")],
                    o, <<>>)
        /\ UNCHANGED <<attrs, options, clock, run, raw, sanitized>>

v2_runner_on_unreachable(host, task, result, o) ==
    LET c == [name |-> "v2_runner_on_unreachable", host |-> host, task |-> task,
              result |-> result, outcome |-> o]
    IN  /\ n_calls < MaxEvents
        /\ IF ContextMissing
           THEN Raises(c, NoDoc, "AttributeError")
           ELSE Returns(c,
                    Stamp("host_unreachable", utcnow, playbook_id, playbook_name, hostname)
                        @@ [host |-> PyName(host), task |-> PyName(task),
                            status |-> Lit("unreachable"),
                            error_message |-> DictGet(result, "msg", HostUnreachable)],
                    o,
                    <<[level |-> "error",
                       msg |-> <<"[Elasticsearch] Host unreachable: ", PyName(host)>>]>>)
        /\ UNCHANGED <<attrs, options, clock, run, raw, sanitized>>

\* sorted(stats.processed.keys()): HostOrder lists the hosts in str order.
HostOrder == <<"h0", "h1">>
sorted(hosts) == SelectSeq(HostOrder, LAMBDA h : h \in hosts)

\* The summary dict: one entry per host of the sorted list, from stats.summarize(h).
Summary(stats) ==
    [h \in SeqRange(sorted(DOMAIN stats)) |->
        [dict |->
            [ok |-> PyInt(stats[h].ok), changed |-> PyInt(stats[h].changed),
             unreachable |-> PyInt(stats[h].unreachable),
             failures |-> PyInt(stats[h].failures),
             skipped |-> PyInt(stats[h].skipped), rescued |-> PyInt(stats[h].rescued),
             ignored |-> PyInt(stats[h].ignored)]]]

v2_playbook_on_stats(stats, o) ==
    LET c == [name |-> "v2_playbook_on_stats", stats |-> stats, outcome |-> o]
        end_time == utcnow
    IN  /\ n_calls < MaxEvents
        /\ IF start_time = Unset
           THEN Raises(c, NoDoc, "AttributeError")
           ELSE IF start_time = PyNone
           THEN Raises(c, NoDoc, "TypeError")
           ELSE IF ContextMissing
           THEN Raises(c, NoDoc, "AttributeError")
           ELSE LET runtime == total_seconds(end_time, start_time) IN
                Returns(c,
                    Stamp("playbook_stats", end_time, playbook_id, playbook_name, hostname)
                        @@ [status |-> Lit("completed"),
                            start_time |-> IsoZ(start_time),
                            end_time |-> IsoZ(end_time),
                            duration_seconds |-> runtime,
                            summary |-> [dict |-> Summary(stats)]],
                    o,
                    <<[level |-> "display",
                       msg |-> <<"[Elasticsearch] Playbook completed in ", runtime>>]>>)
        /\ UNCHANGED <<attrs, options, clock, run, raw, sanitized>>

\* set_options: the three options always have a value (each has a default).
set_options(host, index, log_results) ==
    /\ es_host' = PyName(host)
    /\ es_index' = PyName(index)
    /\ log_task_results' = PyBool(log_results)
    /\ UNCHANGED <<attrs, clock, last, counts, run, raw, sanitized>>

\* _send_to_elasticsearch(log_entry) called on its own with a document.
send_to_elasticsearch(entry, o) ==
    \E r \in {Send(entry, o)} :
    /\ n_calls < MaxEvents
    /\ call' = [name |-> "_send_to_elasticsearch", outcome |-> o]
    /\ log_entry' = entry
    /\ posted' = r.posted
    /\ shown' = r.shown
    /\ exc' = r.exc
    /\ n_calls' = n_calls + 1
    /\ n_posts' = n_posts + Len(r.posted)
    /\ n_failed' = n_failed + (IF r.posted # <<>> /\ ~Delivered(o) THEN 1 ELSE 0)
    /\ UNCHANGED <<attrs, options, clock, run, raw, sanitized>>

\* Time passes between two calls.
Tick ==
    /\ clock < MaxClock
    /\ clock' = clock + 1
    /\ UNCHANGED <<attrs, options, last, counts, run, raw, sanitized>>

(***************************************************************************)
(* Inputs.                                                                 *)
(***************************************************************************)
Hostnames == {"ctl-a"}
Playbooks == {"site.yml", "deploy.yml"}
Plays == {"webservers"}
Tasks == {"install pkg"}
TargetHosts == SeqRange(HostOrder)
EventHosts == {"h1"}
EsHosts == {"http://localhost:9200"}
EsIndexes == {"ansible-logs"}

Chars == <<"a", "b", "c">>
\* A string of n characters whose characters differ by position.
Fill(n) == [i \in 1..n |-> Chars[(i % 3) + 1]]
\* A list of n one-character lines that differ by position.
Lines(n) == [i \in 1..n |-> PyStr(<<Chars[(i % 3) + 1]>>)]

EmptyDict == [k \in {} |-> PyNone]

\* Raw task results (result._result) of the lifecycle events: without msg and
\* changed, with a msg, and with an empty msg, changed, a key off the
\* allow-list and a list past the cap.
Results ==
    { EmptyDict,
      [msg |-> PyStr(<<"b", "o", "o", "m">>)],
      [msg |-> PyStr(<<>>), changed |-> PyBool(TRUE),
       invocation |-> PyName("module_args"),
       stdout_lines |-> PyList(Lines(MaxList + 1))] }

\* The raw results tried where the order of the calls is what is looked at.
BareResults == {EmptyDict}

Tally ==
    [h \in TargetHosts |->
        [ok |-> IF h = "h0" THEN 5 ELSE 2, changed |-> 1, unreachable |-> 0,
         failures |-> IF h = "h0" THEN 0 ELSE 1, skipped |-> 0, rescued |-> 0,
         ignored |-> 0]]
StatsInputs == {[h \in S |-> Tally[h]] : S \in {{}, TargetHosts}}

ProbeDoc == [event_type |-> Lit("probe")]

(***************************************************************************)
(* __init__                                                                *)
(***************************************************************************)
InitPlugin ==
    /\ HAS_REQUESTS \in BOOLEAN
    /\ IF HAS_REQUESTS
       THEN /\ disabled = FALSE
            /\ playbook_name = PyNone
            /\ playbook_id = PyNone
            /\ start_time = PyNone
            /\ hostname \in {PyName(h) : h \in Hostnames}
       ELSE /\ disabled = TRUE
            /\ playbook_name = Unset
            /\ playbook_id = Unset
            /\ start_time = Unset
            /\ hostname = Unset
    /\ es_host = Unset
    /\ es_index = Unset
    /\ log_task_results = Unset
    /\ clock = 0
    /\ call = NoCall
    /\ log_entry = NoDoc
    /\ posted = <<>>
    /\ shown = <<>>
    /\ exc = "none"
    /\ n_calls = 0
    /\ n_posts = 0
    /\ n_failed = 0
    /\ run = NoRun

Init ==
    /\ InitPlugin
    /\ raw = NoDoc
    /\ sanitized = NoDoc

(***************************************************************************)
(* Bounded inputs of _clean_result alone: under one allow-listed or other  *)
(* key, a str or a list of a length around its cap, a value of another     *)
(* type, or a list that holds one long line; beside it, up to MaxOtherKeys *)
(* other keys.                                                             *)
(***************************************************************************)
MaxOver == 2
MaxOtherKeys == 1

UnsafeKeys == {"invocation", "_ansible_no_log"}
AllKeys == {"stdout", "stderr", "msg", "changed", "rc", "stdout_lines"} \cup UnsafeKeys

StrLens == {0, 1, MaxStr - 1, MaxStr} \cup {MaxStr + d : d \in 1..MaxOver}
ListLens == {0, 1, MaxList - 1, MaxList} \cup {MaxList + d : d \in 1..MaxOver}

\* The size six fields capped as a str is capped would have at most.
SizeBound == 6 * (MaxStr + Len(Marker))

TestValues ==
    {PyStr(Fill(n)) : n \in StrLens} \cup {PyList(Lines(n)) : n \in ListLens}
    \cup {PyBool(TRUE), PyBool(FALSE), PyInt(0), PyNone,
          PyList(<<PyStr(Fill(SizeBound + 1))>>)}

Backgrounds ==
    {[k \in S |-> PyStr(<<"x">>)] :
        S \in {T \in SUBSET AllKeys : Cardinality(T) <= MaxOtherKeys}}

RawResults ==
    Backgrounds \cup {(k :> v) @@ bg : k \in AllKeys, v \in TestValues, bg \in Backgrounds}

\* _clean_result(raw) called on its own.
clean_one ==
    /\ sanitized = NoDoc
    /\ sanitized' = _clean_result(raw)
    /\ UNCHANGED <<attrs, options, clock, last, counts, run, raw>>

(***************************************************************************)
(* Specifications.                                                         *)
(***************************************************************************)
\* Ansible sets the options of a plugin before its first event and never calls
\* a plugin whose disabled attribute is true.
Called == ~disabled /\ es_host # Unset
\* Ansible calls v2_playbook_on_start before the other events of a run.
InRun == Called /\ start_time \notin {Unset, PyNone}

Next ==
    \/ \E h \in EsHosts, i \in EsIndexes, l \in BOOLEAN :
          es_host = Unset /\ set_options(h, i, l)
    \/ Tick
    \/ \E p \in Playbooks, o \in Outcomes : Called /\ v2_playbook_on_start(p, o)
    \/ \E p \in Plays, o \in Outcomes : InRun /\ v2_playbook_on_play_start(p, o)
    \/ \E t \in Tasks, o \in Outcomes : InRun /\ v2_playbook_on_task_start(t, o)
    \/ \E h \in EventHosts, t \in Tasks, r \in Results, o \in Outcomes :
          InRun /\ v2_runner_on_ok(h, t, r, o)
    \/ \E h \in EventHosts, t \in Tasks, r \in Results, i \in BOOLEAN, o \in Outcomes :
          InRun /\ v2_runner_on_failed(h, t, r, i, o)
    \/ \E h \in EventHosts, t \in Tasks, o \in Outcomes :
          InRun /\ v2_runner_on_skipped(h, t, o)
    \/ \E h \in EventHosts, t \in Tasks, r \in Results, o \in Outcomes :
          InRun /\ v2_runner_on_unreachable(h, t, r, o)
    \/ \E s \in StatsInputs, o \in Outcomes : InRun /\ v2_playbook_on_stats(s, o)

Spec == Init /\ [][Next]_vars

NextAPI ==
    \/ \E h \in EsHosts, i \in EsIndexes, l \in BOOLEAN : set_options(h, i, l)
    \/ Tick
    \/ \E o \in Outcomes : send_to_elasticsearch(ProbeDoc, o)
    \/ \E p \in Playbooks, o \in Outcomes : v2_playbook_on_start(p, o)
    \/ \E p \in Plays, o \in Outcomes : v2_playbook_on_play_start(p, o)
    \/ \E t \in Tasks, o \in Outcomes : v2_playbook_on_task_start(t, o)
    \/ \E h \in EventHosts, t \in Tasks, r \in BareResults, o \in Outcomes :
          v2_runner_on_ok(h, t, r, o)
    \/ \E h \in EventHosts, t \in Tasks, r \in BareResults, i \in BOOLEAN, o \in Outcomes :
          v2_runner_on_failed(h, t, r, i, o)
    \/ \E h \in EventHosts, t \in Tasks, o \in Outcomes : v2_runner_on_skipped(h, t, o)
    \/ \E h \in EventHosts, t \in Tasks, r \in BareResults, o \in Outcomes :
          v2_runner_on_unreachable(h, t, r, o)
    \/ \E s \in StatsInputs, o \in Outcomes : v2_playbook_on_stats(s, o)

SpecAPI == Init /\ [][NextAPI]_vars

InitClean ==
    /\ InitPlugin
    /\ HAS_REQUESTS
    /\ raw \in RawResults
    /\ sanitized = NoDoc

NextClean == clean_one

SpecClean == InitClean /\ [][NextClean]_vars

(***************************************************************************)
(* Properties of _clean_result (specification SpecClean).                  *)
(***************************************************************************)
AllowList == {"stdout", "stderr", "msg", "changed", "rc", "stdout_lines"}
Cleaned == sanitized # NoDoc

\* The number of characters and scalars a value holds.
RECURSIVE SizeOf(_)
SizeOf(v) ==
    IF IsStr(v) THEN Len(v.str)
    ELSE IF IsList(v) /\ v.list # <<>>
    THEN SizeOf(Head(v.list)) + SizeOf(PyList(Tail(v.list)))
    ELSE IF IsList(v) THEN 0
    ELSE 1

RECURSIVE SizeOfKeys(_, _)
SizeOfKeys(d, keys) ==
    IF keys = {} THEN 0
    ELSE LET k == CHOOSE x \in keys : TRUE
         IN  SizeOf(d[k]) + SizeOfKeys(d, keys \ {k})

\* C7: the size of the sanitized result never exceeds a fixed bound, whatever
\* the allow-listed fields hold, the elements inside a list included.
C7_SizeBounded == Cleaned => SizeOfKeys(sanitized, DOMAIN sanitized) <= SizeBound

\* C8: a str longer than 5000 is output as its first 5000 characters followed
\* by the marker, a list longer than 50 as its first 50 elements followed by
\* one marker element, and every other present allow-listed value verbatim.
C8_Truncation ==
    Cleaned =>
        \A k \in DOMAIN raw \cap AllowList :
            /\ k \in DOMAIN sanitized
            /\ LET v == raw[k]
                   out == sanitized[k]
               IN  IF IsStr(v) /\ Len(v.str) > MaxStr
                   THEN /\ IsStr(out)
                        /\ Len(out.str) = MaxStr + Len(Marker)
                        /\ \A i \in 1..MaxStr : out.str[i] = v.str[i]
                        /\ \A j \in 1..Len(Marker) : out.str[MaxStr + j] = Marker[j]
                   ELSE IF IsList(v) /\ Len(v.list) > MaxList
                   THEN /\ IsList(out)
                        /\ Len(out.list) = MaxList + 1
                        /\ \A i \in 1..MaxList : out.list[i] = v.list[i]
                        /\ out.list[MaxList + 1] = PyStr(Marker)
                   ELSE out = v

\* A str two past the cap came out at the cap plus the marker.
C8_Witness ==
    /\ Cleaned
    /\ "stdout" \in DOMAIN raw
    /\ IsStr(raw.stdout)
    /\ Len(raw.stdout.str) = MaxStr + 2
    /\ Len(sanitized.stdout.str) = MaxStr + Len(Marker)

\* C9: the keys of the sanitized result are exactly the keys of the raw result
\* that are on the allow-list.
C9_KeysAreAllowListed == Cleaned => DOMAIN sanitized = DOMAIN raw \cap AllowList

\* A raw result with a key off the allow-list and without stdout came out with
\* rc alone.
C9_Witness ==
    /\ Cleaned
    /\ DOMAIN raw = {"rc", "invocation"}
    /\ DOMAIN sanitized = {"rc"}

(***************************************************************************)
(* Properties of the lifecycle entry points under Ansible's call order     *)
(* (specification Spec).                                                   *)
(***************************************************************************)
EntryPoints ==
    {"v2_playbook_on_start", "v2_playbook_on_play_start", "v2_playbook_on_task_start",
     "v2_runner_on_ok", "v2_runner_on_failed", "v2_runner_on_skipped",
     "v2_runner_on_unreachable", "v2_playbook_on_stats"}

EventType ==
    [v2_playbook_on_start |-> "playbook_start", v2_playbook_on_play_start |-> "play_start",
     v2_playbook_on_task_start |-> "task_start", v2_runner_on_ok |-> "task_ok",
     v2_runner_on_failed |-> "task_failed", v2_runner_on_skipped |-> "task_skipped",
     v2_runner_on_unreachable |-> "host_unreachable",
     v2_playbook_on_stats |-> "playbook_stats"]

\* The warnings among messages that report a delivery that failed.
DeliveryWarnings(messages) ==
    SelectSeq(messages,
        LAMBDA m : /\ m.level = "warning"
                   /\ m.msg[1] \in {"[Elasticsearch] Failed to send log: HTTP ",
                                    "[Elasticsearch] Error: "})

\* C1: whatever answer the POST meets, the entry point returns without
\* raising, a failed delivery shows as one warning and nothing else, and a
\* call made after a failed delivery is still processed and sent.
C1_NeverRaises ==
    /\ [](/\ exc = "none"
          /\ (posted # <<>> /\ ~Delivered(call.outcome))
                => Len(DeliveryWarnings(shown)) = 1)
    /\ [][(n_failed > 0 /\ n_calls' # n_calls)
            => (exc' = "none" /\ Len(posted') = 1 /\ log_entry' # NoDoc)]_vars

\* A call after a failed delivery was sent and delivered.
C1_Witness ==
    /\ n_failed > 0
    /\ call.name \in EntryPoints \ {"v2_playbook_on_start"}
    /\ Len(posted) = 1
    /\ Delivered(call.outcome)
    /\ exc = "none"

\* C2: every call of an entry point makes exactly one POST, which carries the
\* document of that call: as many POSTs as calls, none repeated after a failure.
C2_OnePostPerEvent ==
    /\ n_posts = n_calls
    /\ call.name \in EntryPoints =>
          /\ Len(posted) = 1
          /\ posted[1].data = json_dumps(log_entry)
          /\ posted[1].data.event_type = PyName(EventType[call.name])

\* The second call was sent once although the delivery of the first failed.
C2_Witness ==
    /\ n_calls = 2
    /\ n_failed = 1
    /\ n_posts = 2
    /\ ~Delivered(call.outcome)
    /\ Len(posted) = 1

\* C3: no failure is reported exactly when the response status is 200 or 201;
\* every other status and every transport exception gives one warning that
\* carries the status code or the error message.
C3_SuccessCodes ==
    posted # <<>> =>
        LET w == DeliveryWarnings(shown)
            o == call.outcome
        IN  IF IsResponse(o) /\ o.status \in {200, 201}
            THEN w = <<>>
            ELSE /\ Len(w) = 1
                 /\ w[1].msg[2] = IF IsResponse(o) THEN o.status ELSE o.error

\* A response 500 gave one warning.
C3_Witness ==
    /\ posted # <<>>
    /\ call.outcome = [status |-> 500]
    /\ Len(DeliveryWarnings(shown)) = 1

\* C6: every document sent carries @timestamp, event_type, playbook_id,
\* playbook and hostname, the last three as v2_playbook_on_start fixed them
\* (playbook_id = hostname, "-", the start time to the second); and no call
\* other than v2_playbook_on_start changes the four attributes of the run.
C6_RunContextFixed ==
    /\ [](posted # <<>> =>
            LET d == posted[1].data IN
            /\ {"@timestamp", "event_type", "playbook_id", "playbook", "hostname"}
                  \subseteq DOMAIN d
            /\ d.playbook_id =
                  [fstr |-> <<run.hostname, "-", [YmdHMS |-> run.start \div TicksPerSecond]>>]
            /\ d.playbook = PyName(run.playbook)
            /\ d.hostname = run.hostname)
    /\ [][~(n_calls' # n_calls /\ call'.name = "v2_playbook_on_start")
            => UNCHANGED <<playbook_id, playbook_name, start_time, hostname>>]_vars

\* A document was sent in a second of the clock after the one the run started in.
C6_Witness ==
    /\ posted # <<>>
    /\ call.name = "v2_playbook_on_play_start"
    /\ run # NoRun
    /\ run.start \div TicksPerSecond < clock \div TicksPerSecond

\* C10: a missing msg or changed is no error: the document of a failed task
\* has error_message = msg, or "Unknown error" without msg; that of an
\* unreachable host msg, or "Host unreachable"; that of an ok task changed, or
\* false without changed; and the document is sent.
C10_Defaults ==
    call.name \in {"v2_runner_on_failed", "v2_runner_on_unreachable", "v2_runner_on_ok"} =>
        /\ exc = "none"
        /\ Len(posted) = 1
        /\ LET d == posted[1].data
               r == call.result
           IN  /\ call.name = "v2_runner_on_failed" =>
                      d.error_message =
                          IF "msg" \in DOMAIN r THEN r.msg ELSE UnknownError
               /\ call.name = "v2_runner_on_unreachable" =>
                      d.error_message =
                          IF "msg" \in DOMAIN r THEN r.msg ELSE HostUnreachable
               /\ call.name = "v2_runner_on_ok" =>
                      d.changed =
                          IF "changed" \in DOMAIN r THEN r.changed ELSE PyBool(FALSE)

\* A failed task whose result has no msg was sent with "Unknown error".
C10_Witness ==
    /\ call.name = "v2_runner_on_failed"
    /\ "msg" \notin DOMAIN call.result
    /\ Len(posted) = 1
    /\ posted[1].data.error_message = UnknownError

C5_UninitializedContext ==
    (call.name \in EntryPoints \ {"v2_playbook_on_start"} /\ run = NoRun) =>
        (exc # "none" /\ posted = <<>>)

====
